---- MODULE Spec2Model ----
(***************************************************************************)
(* A model of the expression engine of mip2: the combinator lexer          *)
(* (util/parser/lexer.js) and the node-to-closure generator (generator.js).*)
(*                                                                         *)
(* Matchers are JavaScript closures; here a closure is a record naming the *)
(* function expression that created it ("k") and the variables it closes   *)
(* over, and Exec runs its body against a walker.                          *)
(***************************************************************************)
EXTENDS Integers, Sequences, FiniteSets, TLC

VARIABLES
  \* ---- one run of a matcher (lexer.js closures applied to a walker)
  pc,        \* "ready": matcher and walker chosen; "done": the matcher has run
  matcher,   \* the closure under test
  walker,    \* [str, index]: the Walker the matcher reads and moves
  entry,     \* walker.index when the matcher was called
  result,    \* what the call returned
  \* ---- Lexer instances and their tables
  lexers,    \* sequence of Lexer objects: references to their tables
  heap,      \* the plain objects ({}): reference -> (key -> value)
  nextId,    \* identities handed to the closures created so far
  calls,     \* the text/regexp/use calls made so far and what each returned
  last,      \* the latest call: [op, this, parent]
  ops,       \* number of calls made on the Lexer objects
  \* ---- one expression, compiled and evaluated (generator.js)
  gpc,       \* "source", "compiled", "failed" (compilation threw), "evaluated",
             \* "recompiled" (the tree was compiled once more)
  tree,      \* the syntax tree
  compiled,  \* what compiling it gave: [fn, gate]
  evaluated, \* the latest evaluation: [m, args, out]
  rootParent, \* path.parent of the root, as the driver sets it
  \* ---- the page's element registry (Resources) and extension loader
  resources,  \* a Resources instance, its table and its elements
  extensions  \* the Extensions object: holders, loading order, promises

vars == <<pc, matcher, walker, entry, result, lexers, heap, nextId, calls, last, ops,
          gpc, tree, compiled, evaluated, rootParent, resources, extensions>>
matchVars == <<pc, matcher, walker, entry, result>>
lexerVars == <<lexers, heap, nextId, calls, last, ops>>
genVars == <<gpc, tree, compiled, evaluated, rootParent>>
hostVars == <<resources, extensions>>

\* ------------------------------------------------------------------ bounds
MaxLen   == 3      \* longest source text
MaxTests == 2      \* longest array of tests handed to a combinator
MaxLexers == 2     \* Lexer objects constructed
MaxOps   == 4      \* calls made on the Lexer objects
MaxArgs  == 2      \* longest list of arguments, elements or properties

\* ------------------------------------------------------------ JS values
\* Every match result is a record of one shape; t is the JS value's kind.
Val(t, type, raw, range, items) ==
  [t |-> t, type |-> type, raw |-> raw, range |-> range, items |-> items]
False     == Val("false", "", <<"undefined">>, <<>>, <<>>)       \* the failure sentinel
Undefined == Val("undefined", "", <<"undefined">>, <<>>, <<>>)   \* explicit absence
Null      == Val("null", "", <<"undefined">>, <<>>, <<>>)
\* JS strings are sequences of characters; NoRaw stands for a missing raw
NoRaw == <<"undefined">>
Node(type, raw, range) == Val("object", type, raw, range, <<>>)
List(items) == Val("array", "", <<"undefined">>, <<>>, items)
\* JS truthiness of a result (arrays and objects are truthy, also when empty)
Truthy(v) == v.t \in {"object", "array", "walker"}
IsNullish(v) == v.t \in {"undefined", "null"}

\* What a call of a closure leaves behind: the returned value, the walker's
\* index, and err # "" when the call did not return at all.
Out(res, index) == [res |-> res, index |-> index, err |-> ""]
Throw(e, index) == [res |-> False, index |-> index, err |-> e]

\* ---------------------------------------------------------------- strings
\* The characters of the pattern strings the model uses.
chars(p) ==
  CASE p = "a"  -> <<"a">>
    [] p = "b"  -> <<"b">>
    [] p = "ab" -> <<"a", "b">>
    [] p = "constructor" -> <<"c","o","n","s","t","r","u","c","t","o","r">>
    [] OTHER    -> <<>>

\* ------------------------------------------------------------------ Walker
\* The cursor the lexer consumes (walker.js is not part of the sources).
end(w) == w.index >= Len(w.str)

\* walker.matchText(text): the text at the current position, consumed
matchText(w, p) ==
  LET c == chars(p)
      n == Len(c)
  IN IF w.index + n <= Len(w.str) /\ SubSeq(w.str, w.index + 1, w.index + n) = c
       THEN n ELSE -1

\* longest run of "a" at position i of str
RECURSIVE runOfA(_, _)
runOfA(str, i) ==
  IF i < Len(str) /\ str[i + 1] = "a" THEN 1 + runOfA(str, i + 1) ELSE 0

\* walker.matchRegExp(regexp): length of the match at the current position,
\* -1 for no match
matchRegExp(w, pattern) ==
  CASE pattern = "a"  -> IF runOfA(w.str, w.index) >= 1 THEN 1 ELSE -1
    [] pattern = "a*" -> runOfA(w.str, w.index)
    [] OTHER -> -1

\* walker.getRange(start): the range from start to the current position
getRange(start, index) == <<start, index>>
\* getRange() without an argument
NoStart == -1

\* ------------------------------------------------------- matcher closures
Array(items) == [k |-> "array", items |-> items]
isArray(x) == x.k = "array"

\* a hand-written matcher: moves the cursor by one character and fails
consumeThenFail == [k |-> "custom", id |-> 0]

\* the closures the Lexer methods create
textFn(id, pattern) == [k |-> "text", id |-> id, pattern |-> pattern]
regexpFn(id, pattern, modifiers) ==
  [k |-> "regexp", id |-> id, pattern |-> pattern, modifiers |-> modifiers]
useFn(id, this, type) == [k |-> "use", id |-> id, this |-> this, type |-> type]
orFn(tests) == [k |-> "or", id |-> 0, tests |-> tests]
seqFn(tests) == [k |-> "seq", id |-> 0, tests |-> tests]
anyFn(test) == [k |-> "any", id |-> 0, test |-> test]
someFn(test) == [k |-> "some", id |-> 0, test |-> test]
optionalFn(test) == [k |-> "optional", id |-> 0, test |-> test]
testFn(id, descriptor, rule) ==
  [k |-> "test", id |-> id, descriptor |-> descriptor, rule |-> rule]
\* Object, the value of ({}).constructor
ObjectCtor == [k |-> "Object", id |-> 0]

\* Lexer.seq
seq(tests) == IF isArray(tests) THEN seqFn(tests.items) ELSE tests
\* Lexer.or
or(tests) == orFn(tests.items)
\* Lexer.any
any(tests) == anyFn(seq(tests))
\* Lexer.some
some(tests) == someFn(seq(tests))
\* Lexer.optional
optional(tests) == optionalFn(seq(tests))

NoMatcher == [k |-> "none", id |-> 0]
\* a descriptor handed to Lexer.set; onMatch names the transform
Descriptor(type, rule, onMatch, fallback) ==
  [type |-> type, rule |-> rule, onMatch |-> onMatch, fallback |-> fallback]

\* ------------------------------------------------------------ plain objects
\* obj[key] on a plain object ({}): its own property, else the property
\* inherited from Object.prototype, else undefined.
ObjectPrototype == {"constructor"}
hasOwn(obj, key) == key \in DOMAIN obj
Get(obj, key) ==
  IF hasOwn(obj, key) THEN obj[key]
  ELSE IF key \in ObjectPrototype THEN ObjectCtor
  ELSE NoMatcher
\* obj[key] = value
Put(obj, key, value) ==
  [x \in (DOMAIN obj) \cup {key} |-> IF x = key THEN value ELSE obj[x]]
\* Object.assign({}, obj): a new object with obj's own properties
assign(obj) == [x \in DOMAIN obj |-> obj[x]]
EmptyObject == [x \in {} |-> NoMatcher]
isDefined(v) == v.k # "none"
\* an entry of lexer.types
Entry(descriptor, test) == [k |-> "entry", id |-> 0, descriptor |-> descriptor, test |-> test]
\* entry.test: undefined on anything that is not an entry of the table
testOf(e) == IF e.k = "entry" THEN e.test ELSE NoMatcher

\* ------------------------------------------------------- running a matcher
\* G is the object graph a closure can reach: [lexers, heap].  busy holds the
\* <<lexer, type, index>> of the rule references being evaluated: entering one
\* again at the same index repeats the same call for ever (the stack overflows).
RECURSIVE Exec(_, _, _, _)
RECURSIVE safeRun(_, _, _, _)
RECURSIVE seqLoop(_, _, _, _, _, _, _)
RECURSIVE orLoop(_, _, _, _, _)
RECURSIVE repeatLoop(_, _, _, _, _)

\* the closure of Lexer.text
RunText(m, w) ==
  LET n == matchText(w, m.pattern)
  IN IF n >= 0
       THEN Out(Node("", chars(m.pattern), getRange(w.index, w.index + n)), w.index + n)
       ELSE Out(False, w.index)

\* the closure of Lexer.regexp; raw is match[0]
RunRegexp(m, w) ==
  LET n == matchRegExp(w, m.pattern)
  IN IF n >= 0
       THEN Out(Node("", SubSeq(w.str, w.index + 1, w.index + n),
                     getRange(w.index, w.index + n)), w.index + n)
       ELSE Out(False, w.index)

\* a hand-written matcher that reads one character and then reports failure
RunCustom(m, w) ==
  Out(False, IF end(w) THEN w.index ELSE w.index + 1)

\* function safeRun (test, walker)
safeRunKeep(test, w, G, busy) == Exec(test, w, G, busy)
safeRun(test, w, G, busy) ==
  LET r == Exec(test, w, G, busy)
  IN IF r.err = "" /\ r.res = False THEN Out(False, w.index) ELSE r

\* the closure of Lexer.or: for (let test of tests)
orLoop(tests, j, w, G, busy) ==
  IF j > Len(tests) THEN Out(False, w.index)
  ELSE LET r == safeRun(tests[j], w, G, busy)
       IN IF r.err # "" \/ r.res # False THEN r
          ELSE orLoop(tests, j + 1, [w EXCEPT !.index = r.index], G, busy)
RunOr(m, w, G, busy) == orLoop(m.tests, 1, w, G, busy)

\* the closure of Lexer.seq: for (let test of tests); index is the position
\* recorded on entry, results the array built so far
seqLoopKeep(tests, j, index, results, w, G, busy) ==
  IF j > Len(tests) THEN Out(List(results), w.index)
  ELSE LET r == safeRun(tests[j], w, G, busy)
       IN IF r.err # "" THEN r
          ELSE IF r.res = False THEN Out(False, r.index)
          ELSE seqLoop(tests, j + 1, index, Append(results, r.res),
                       [w EXCEPT !.index = r.index], G, busy)
seqLoop(tests, j, index, results, w, G, busy) ==
  IF j > Len(tests) THEN Out(List(results), w.index)
  ELSE LET r == safeRun(tests[j], w, G, busy)
       IN IF r.err # "" THEN r
          ELSE IF r.res = False THEN Out(False, index)
          ELSE seqLoop(tests, j + 1, index, Append(results, r.res),
                       [w EXCEPT !.index = r.index], G, busy)
RunSeq(m, w, G, busy) == seqLoop(m.tests, 1, w.index, <<>>, w, G, busy)

\* while (!walker.end()) of Lexer.any and Lexer.some.  An attempt that
\* succeeds without moving the cursor is repeated unchanged: the loop never
\* ends ("hang").
repeatLoop(test, results, w, G, busy) ==
  IF end(w) THEN Out(List(results), w.index)
  ELSE LET r == safeRun(test, w, G, busy)
       IN IF r.err # "" THEN r
          ELSE IF r.res = False THEN Out(List(results), r.index)
          ELSE IF r.index = w.index THEN Throw("hang", w.index)
          ELSE repeatLoop(test, Append(results, r.res),
                          [w EXCEPT !.index = r.index], G, busy)

\* the closure of Lexer.any
RunAnyFailing(m, w, G, busy) ==
  LET r == repeatLoop(m.test, <<>>, w, G, busy)
  IN IF r.err = "" /\ Len(r.res.items) = 0 THEN Out(False, w.index) ELSE r
RunAny(m, w, G, busy) == repeatLoop(m.test, <<>>, w, G, busy)

\* the closure of Lexer.some
RunSomeEmpty(m, w, G, busy) == repeatLoop(m.test, <<>>, w, G, busy)
RunSome(m, w, G, busy) ==
  LET r == repeatLoop(m.test, <<>>, w, G, busy)
  IN IF r.err # "" THEN r
     ELSE IF Len(r.res.items) > 0 THEN r
     ELSE Out(False, w.index)

\* the closure of Lexer.optional: safeRun(test, walker) || undefined
RunOptionalFailing(m, w, G, busy) == safeRun(m.test, w, G, busy)
RunOptional(m, w, G, busy) ==
  LET r == safeRun(m.test, w, G, busy)
  IN IF r.err # "" THEN r
     ELSE IF Truthy(r.res) THEN r ELSE Out(Undefined, r.index)

\* descriptor.onMatch(...args), args the result itself or its elements
onMatch(name, res) ==
  LET args == IF res.t = "array" THEN res.items ELSE <<res>>
  IN CASE name = "first" -> IF Len(args) > 0 THEN args[1] ELSE Undefined
       [] name = "false" -> False
       [] name = "null"  -> Null
       [] OTHER          -> Node("", NoRaw, <<>>)    \* "object": a new node

\* the test closure Lexer.set stores
RunTest(m, w, G, busy) ==
  LET d == m.descriptor
      index == w.index
      r == Exec(m.rule, w, G, busy)
      res == IF r.res # False /\ d.onMatch # "none"
               THEN onMatch(d.onMatch, r.res) ELSE r.res
  IN IF r.err # "" THEN r
     ELSE IF res = False
       THEN IF isDefined(d.fallback)
              THEN LET f == Exec(d.fallback, [w EXCEPT !.index = index], G, busy)
                   IN IF f.err # "" THEN f
                      ELSE IF Truthy(f.res) THEN f ELSE Out(False, f.index)
              ELSE Out(False, index)
     ELSE IF IsNullish(res) THEN Out(res, r.index)
     ELSE Out([res EXCEPT
                 !.type = IF res.type = "" THEN d.type ELSE res.type,
                 !.range = IF res.range = <<>>
                             THEN getRange(NoStart, r.index) ELSE res.range],
              r.index)

\* the closure Lexer.use caches: walker => (this.types[type].test(walker))
RunUse(m, w, G, busy) ==
  LET e == Get(G.heap[G.lexers[m.this].types], m.type)
      key == <<m.this, m.type, w.index>>
  IN IF ~isDefined(e) \/ ~isDefined(testOf(e)) THEN Throw("TypeError", w.index)
     ELSE IF key \in busy THEN Throw("RangeError", w.index)
     ELSE Exec(testOf(e), w, G, busy \cup {key})

\* test(walker)
Exec(m, w, G, busy) ==
  CASE m.k = "text"     -> RunText(m, w)
    [] m.k = "regexp"   -> RunRegexp(m, w)
    [] m.k = "custom"   -> RunCustom(m, w)
    [] m.k = "or"       -> RunOr(m, w, G, busy)
    [] m.k = "seq"      -> RunSeq(m, w, G, busy)
    [] m.k = "any"      -> RunAny(m, w, G, busy)
    [] m.k = "some"     -> RunSome(m, w, G, busy)
    [] m.k = "optional" -> RunOptional(m, w, G, busy)
    [] m.k = "test"     -> RunTest(m, w, G, busy)
    [] m.k = "use"      -> RunUse(m, w, G, busy)
    [] m.k = "Object"   -> Out(Val("walker", "", <<"undefined">>, <<>>, <<>>), w.index)
    [] OTHER            -> Throw("TypeError", w.index)


\* ---------------------------------------------- specification: one run
\* The source texts, and the matchers built with the Lexer's combinators from
\* a few leaves, two levels deep.
Chars == {"a", "b"}
Sources == UNION {[1..n -> Chars] : n \in 0..MaxLen}
Leaves == {textFn(0, "a"), textFn(0, "ab"), regexpFn(0, "a*", ""), consumeThenFail}
Arrays(S) == {Array(t) : t \in UNION {[1..n -> S] : n \in 1..MaxTests}}
Combined(S) ==
  {seq(a) : a \in Arrays(S)} \cup {or(a) : a \in Arrays(S)}
    \cup {any(a) : a \in Arrays(S) \cup S} \cup {some(a) : a \in Arrays(S) \cup S}
    \cup {optional(a) : a \in Arrays(S) \cup S}
Transforms == {"none", "first", "false", "null", "object"}
\* a registered rule that consumes "a" and answers null
NullRule == testFn(0, Descriptor("B", textFn(0, "a"), "null", NoMatcher), textFn(0, "a"))
Fallbacks == {NoMatcher, textFn(0, "a"), consumeThenFail, NullRule,
              optional(textFn(0, "a"))}
\* the test Lexer.set stores for a descriptor: rule = this.seq(descriptor.rule)
setTest(id, descriptor) == testFn(id, descriptor, seq(descriptor.rule))
Rules ==
  {setTest(0, Descriptor("A", r, t, f)) :
     r \in Leaves \cup Arrays(Leaves), t \in Transforms, f \in Fallbacks}
Inner == {textFn(0, "a"), consumeThenFail, optional(textFn(0, "a")),
          any(textFn(0, "a")), seq(Array(<<textFn(0, "a"), textFn(0, "ab")>>)),
          NullRule}
Matchers == Leaves \cup Combined(Leaves) \cup Rules \cup Combined(Inner)

NoGraph == [lexers |-> <<>>, heap |-> <<>>]
NoResult == Out(Undefined, 0)

InitLexer ==
  /\ lexers = <<>>
  /\ heap = <<>>
  /\ nextId = 1
  /\ calls = {}
  /\ last = [op |-> "none", this |-> 0, parent |-> 0]
  /\ ops = 0

\* no expression is being compiled
IdleGen ==
  /\ gpc = "idle"
  /\ tree = <<>>
  /\ compiled = <<>>
  /\ evaluated = <<>>
  /\ rootParent = <<>>

\* no Resources instance and no Extensions object
IdleHost ==
  /\ resources = <<>>
  /\ extensions = <<>>

\* no matcher is being run
IdleMatch ==
  /\ pc = "idle"
  /\ matcher = NoMatcher
  /\ walker = [str |-> <<>>, index |-> 0]
  /\ entry = 0
  /\ result = NoResult

InitMatch ==
  /\ pc = "ready"
  /\ matcher \in Matchers
  /\ \E str \in Sources : \E i \in 0..Len(str) :
       walker = [str |-> str, index |-> i]
  /\ entry = walker.index
  /\ result = NoResult
  /\ InitLexer
  /\ IdleGen
  /\ IdleHost

\* result = matcher(walker)
Run ==
  /\ pc = "ready"
  /\ LET r == Exec(matcher, walker, NoGraph, {})
     IN /\ result' = r
        /\ walker' = [walker EXCEPT !.index = r.index]
  /\ pc' = "done"
  /\ UNCHANGED <<matcher, entry, lexerVars, genVars, hostVars>>

NextMatch == Run
SpecMatch == InitMatch /\ [][NextMatch]_vars

returned == pc = "done" /\ result.err = ""
entryWalker == [walker EXCEPT !.index = entry]
At(i) == [walker EXCEPT !.index = i]

\* ---------------------------------------------------------------- C1
\* Some element of tests, from the j-th on and started at w, reports failure
\* after the ones before it succeeded.
RECURSIVE elementFails(_, _, _)
elementFails(tests, j, w) ==
  /\ j <= Len(tests)
  /\ LET r == Exec(tests[j], w, NoGraph, {})
     IN /\ r.err = ""
        /\ \/ r.res = False
           \/ elementFails(tests, j + 1, [w EXCEPT !.index = r.index])

\* C1: sequence atomicity.  When the k-th element of a sequence fails after
\* the first k-1 succeeded, the sequence returns the failure sentinel and the
\* cursor is where it was when the sequence was entered.
C1_SeqAtomic ==
  (returned /\ matcher.k = "seq" /\ elementFails(matcher.tests, 1, entryWalker))
    => (result.res = False /\ walker.index = entry)

\* a sequence whose first element consumed input and whose second failed
C1_Witness ==
  /\ returned /\ matcher.k = "seq" /\ Len(matcher.tests) >= 2
  /\ LET r == Exec(matcher.tests[1], entryWalker, NoGraph, {})
     IN /\ r.err = "" /\ r.res # False /\ r.index > entry
        /\ Exec(matcher.tests[2], At(r.index), NoGraph, {}).res = False
  /\ result.res = False /\ walker.index = entry

\* ---------------------------------------------------------------- C2
\* the first candidate that, started at w, does not fail (0: none)
RECURSIVE firstMatch(_, _, _)
firstMatch(tests, j, w) ==
  IF j > Len(tests) THEN 0
  ELSE LET r == Exec(tests[j], w, NoGraph, {})
       IN IF r.err # "" \/ r.res # False THEN j ELSE firstMatch(tests, j + 1, w)

\* C2: alternation backtracking exactness.  The alternation returns what its
\* first non-failing candidate returns when started at the entry position,
\* with the cursor where that candidate alone leaves it; when all candidates
\* fail it returns failure with the cursor at the entry position.
C2_OrExact ==
  (returned /\ matcher.k = "or") =>
    LET j == firstMatch(matcher.tests, 1, entryWalker)
    IN IF j = 0 THEN result.res = False /\ walker.index = entry
       ELSE LET r == Exec(matcher.tests[j], entryWalker, NoGraph, {})
            IN result.res = r.res /\ walker.index = r.index

\* an earlier candidate consumed a character and failed, a later one matched
C2_Witness ==
  /\ returned /\ matcher.k = "or" /\ Len(matcher.tests) >= 2
  /\ LET r == Exec(matcher.tests[1], entryWalker, NoGraph, {})
     IN r.res = False /\ r.index > entry
  /\ result.res.t = "object" /\ walker.index > entry

\* ---------------------------------------------------------------- C3
\* C3: transactional failure of registered rules.  Whenever the test stored
\* by set reports failure, the cursor is where it was on entry to the test.
C3_RuleFailureRestores ==
  (returned /\ matcher.k = "test" /\ result.res = False) => walker.index = entry

\* ---------------------------------------------------------------- C10
\* the consecutive successful applications of test from w on: their results
\* and the position after the last one
RECURSIVE applications(_, _, _)
applications(test, w, results) ==
  IF end(w) THEN Out(List(results), w.index)
  ELSE LET r == Exec(test, w, NoGraph, {})
       IN IF r.res = False THEN Out(List(results), w.index)
          ELSE applications(test, [w EXCEPT !.index = r.index], Append(results, r.res))

\* C10: repeatZeroOrMore never fails.  A matcher built by any returns the
\* list of the results of the consecutive successful applications of its
\* inner matcher, never the failure sentinel, and leaves the cursor after the
\* last successful application.
C10_AnyNeverFails ==
  (returned /\ matcher.k = "any") =>
    /\ result.res.t = "array"
    /\ result.res = applications(matcher.test, entryWalker, <<>>).res
    /\ walker.index = applications(matcher.test, entryWalker, <<>>).index

\* zero repetitions: the only attempt consumed a character and failed
C10_Witness ==
  /\ returned /\ matcher.k = "any" /\ ~end(entryWalker)
  /\ Exec(matcher.test, entryWalker, NoGraph, {}).res = False
  /\ Exec(matcher.test, entryWalker, NoGraph, {}).index > entry
  /\ result.res = List(<<>>) /\ walker.index = entry

\* ---------------------------------------------------------------- C11
\* C11: repeatOneOrMore fails exactly on zero repetitions.  A matcher built
\* by some returns the failure sentinel exactly when no application of its
\* inner matcher succeeded, and then the cursor is where it was on entry;
\* otherwise it returns the list of the results, in order, with the cursor
\* after the last successful application.
C11_SomeFailsOnZero ==
  (returned /\ matcher.k = "some") =>
    LET a == applications(matcher.test, entryWalker, <<>>)
    IN /\ (result.res = False) <=> (Len(a.res.items) = 0)
       /\ result.res = False => walker.index = entry
       /\ result.res # False =>
            /\ result.res = a.res /\ Len(result.res.items) > 0
            /\ walker.index = a.index

\* zero repetitions: the only attempt consumed a character and failed
C11_Witness ==
  /\ returned /\ matcher.k = "some" /\ ~end(entryWalker)
  /\ Exec(matcher.test, entryWalker, NoGraph, {}).res = False
  /\ Exec(matcher.test, entryWalker, NoGraph, {}).index > entry
  /\ result.res = False /\ walker.index = entry

\* ---------------------------------------------------------------- C12
\* C12: optional yields absence, never failure.  A matcher built by optional
\* never returns the failure sentinel; when its inner matcher fails it returns
\* undefined with the cursor where it was on entry, and when the inner matcher
\* returns a match that match is returned unchanged.
C12_OptionalAbsence ==
  (returned /\ matcher.k = "optional") =>
    LET r == Exec(matcher.test, entryWalker, NoGraph, {})
    IN /\ result.res # False
       /\ r.res = False =>
            /\ result.res = Undefined /\ Undefined # False
            /\ walker.index = entry
       /\ Truthy(r.res) => (result.res = r.res /\ walker.index = r.index)

\* the inner matcher consumed a character and failed: undefined, cursor back
C12_Witness ==
  /\ returned /\ matcher.k = "optional"
  /\ Exec(matcher.test, entryWalker, NoGraph, {}).res = False
  /\ Exec(matcher.test, entryWalker, NoGraph, {}).index > entry
  /\ result.res = Undefined /\ walker.index = entry

\* ---------------------------------------------------------------- C13
\* C13: kind and range back-fill.  Every match (neither failure nor
\* null/undefined) returned by the test of a registered rule, whether it comes
\* from the rule, from onMatch or from the fallback, carries the descriptor's
\* type and the range from the cursor position on entry to the position on
\* return.
C13_KindRangeBackfill ==
  (returned /\ matcher.k = "test" /\ Truthy(result.res)) =>
    /\ result.res.type = matcher.descriptor.type
    /\ result.res.range = getRange(entry, walker.index)

\* ---------------------------------------------------------------- C14
\* the rule of a registered test, or its onMatch transform, fails from w on
ruleFails(m, w) ==
  LET r == Exec(m.rule, w, NoGraph, {})
  IN /\ r.err = ""
     /\ \/ r.res = False
        \/ m.descriptor.onMatch # "none" /\ onMatch(m.descriptor.onMatch, r.res) = False

\* C14: the fallback's outcome is returned as it is.  When the rule (or its
\* onMatch) fails and the descriptor has a fallback, the test returns exactly
\* what the fallback returned: a match, failure, or null/undefined.
C14_FallbackAsIs ==
  (returned /\ matcher.k = "test" /\ isDefined(matcher.descriptor.fallback)
     /\ ruleFails(matcher, entryWalker)) =>
    result.res = Exec(matcher.descriptor.fallback, entryWalker, NoGraph, {}).res

\* ---------------------------------------------------------------- C22
\* the inner matcher returns from every position of the source text
innerTerminates ==
  \A i \in 0..Len(walker.str) : Exec(matcher.test, At(i), NoGraph, {}).err = ""

\* C22: termination of repetition.  A matcher built by any or some around an
\* inner matcher that terminates returns on every finite input, also when the
\* inner matcher succeeds without advancing the cursor.
C22_RepetitionTerminates ==
  (pc = "done" /\ matcher.k \in {"any", "some"} /\ innerTerminates) =>
    result.err = ""

\* ------------------------------------------ specification: Lexer objects
Graph == [lexers |-> lexers, heap |-> heap]
\* this.types, this.caches.text, ... of lexer l, dereferenced
typesOf(G, l)  == G.heap[G.lexers[l].types]
regexpOf(G, l) == G.heap[G.lexers[l].caches.regexp]
textOf(G, l)   == G.heap[G.lexers[l].caches.text]
typeOf(G, l)   == G.heap[G.lexers[l].caches.type]
tablesOf(G, l) == [types |-> typesOf(G, l), regexp |-> regexpOf(G, l),
                   text |-> textOf(G, l), type |-> typeOf(G, l)]

\* a Lexer object whose tables are the four objects from reference r on
LexerAt(r) ==
  [types |-> r, caches |-> [regexp |-> r + 1, text |-> r + 2, type |-> r + 3]]

\* function clone (parentLexer, childLexer): [lexer, heap] with the child
\* appended; each Object.assign({}, ...) is a new object on the heap
cloneShared(G, parent) ==
  [lexers |-> Append(G.lexers, G.lexers[parent]), heap |-> G.heap]
clone(G, parent) ==
  LET r == Len(G.heap) + 1
  IN [lexers |-> Append(G.lexers, LexerAt(r)),
      heap |-> G.heap \o <<assign(typesOf(G, parent)), assign(regexpOf(G, parent)),
                           assign(textOf(G, parent)), assign(typeOf(G, parent))>>]

\* new Lexer(parent); parent = 0 stands for a call without a parent Lexer
construct(G, parent) ==
  IF parent # 0 THEN clone(G, parent)
  ELSE [lexers |-> Append(G.lexers, LexerAt(Len(G.heap) + 1)),
        heap |-> G.heap \o <<EmptyObject, EmptyObject, EmptyObject, EmptyObject>>]

\* `/${pattern}/${modifiers}`
regexpString(pattern, modifiers) ==
  CASE pattern = "a*" /\ modifiers = ""  -> "/a*/"
    [] pattern = "a"  /\ modifiers = "i" -> "/a/i"
    [] pattern = "a"  /\ modifiers = ""  -> "/a/"
    [] OTHER -> "/a*/i"

Types == {"A", "B"}
Patterns == {"a", "constructor"}
RegExps == {<<"a*", "">>, <<"a", "i">>}

Init ==
  /\ LET G == construct([lexers |-> <<>>, heap |-> <<>>], 0)
     IN lexers = G.lexers /\ heap = G.heap
  /\ nextId = 1
  /\ calls = {}
  /\ last = [op |-> "new", this |-> 1, parent |-> 0]
  /\ ops = 0
  /\ IdleMatch
  /\ IdleGen
  /\ IdleHost

Called(op, this, parent) ==
  /\ last' = [op |-> op, this |-> this, parent |-> parent]
  /\ ops' = ops + 1
  /\ UNCHANGED <<matchVars, genVars, hostVars>>

\* child = new Lexer(parent)
NewLexer(parent) ==
  /\ ops < MaxOps /\ Len(lexers) < MaxLexers
  /\ LET G == construct(Graph, parent)
     IN lexers' = G.lexers /\ heap' = G.heap
  /\ UNCHANGED <<nextId, calls>>
  /\ Called("new", Len(lexers) + 1, parent)

\* Lexer.text: [ret, cache, nextId] after this.text(pattern)
text(this, pattern) ==
  LET cache == textOf(Graph, this)
  IN IF ~isDefined(Get(cache, pattern))
       THEN [ret |-> textFn(nextId, pattern),
             cache |-> Put(cache, pattern, textFn(nextId, pattern)),
             nextId |-> nextId + 1]
       ELSE [ret |-> Get(cache, pattern), cache |-> cache, nextId |-> nextId]

Text(this, pattern) ==
  /\ ops < MaxOps
  /\ LET r == text(this, pattern)
     IN /\ heap' = [heap EXCEPT ![lexers[this].caches.text] = r.cache]
        /\ nextId' = r.nextId
        /\ calls' = calls \cup {[op |-> "text", this |-> this, key |-> pattern,
                                 ret |-> r.ret, registered |-> FALSE]}
  /\ UNCHANGED lexers
  /\ Called("text", this, 0)

\* Lexer.regexp
regexp(this, pattern, modifiers) ==
  LET cache == regexpOf(Graph, this)
      key == regexpString(pattern, modifiers)
  IN IF ~isDefined(Get(cache, key))
       THEN [ret |-> regexpFn(nextId, pattern, modifiers),
             cache |-> Put(cache, key, regexpFn(nextId, pattern, modifiers)),
             nextId |-> nextId + 1]
       ELSE [ret |-> Get(cache, key), cache |-> cache, nextId |-> nextId]

Regexp(this, pattern, modifiers) ==
  /\ ops < MaxOps
  /\ LET r == regexp(this, pattern, modifiers)
     IN /\ heap' = [heap EXCEPT ![lexers[this].caches.regexp] = r.cache]
        /\ nextId' = r.nextId
        /\ calls' = calls \cup {[op |-> "regexp", this |-> this,
                                 key |-> regexpString(pattern, modifiers),
                                 ret |-> r.ret, registered |-> FALSE]}
  /\ UNCHANGED lexers
  /\ Called("regexp", this, 0)

\* Lexer.use
use(this, type) ==
  LET types == typesOf(Graph, this)
      cache == typeOf(Graph, this)
  IN IF isDefined(Get(types, type))
       THEN [ret |-> testOf(Get(types, type)), cache |-> cache, nextId |-> nextId]
     ELSE IF ~isDefined(Get(cache, type))
       THEN [ret |-> useFn(nextId, this, type),
             cache |-> Put(cache, type, useFn(nextId, this, type)),
             nextId |-> nextId + 1]
     ELSE [ret |-> Get(cache, type), cache |-> cache, nextId |-> nextId]

Use(this, type) ==
  /\ ops < MaxOps
  /\ LET r == use(this, type)
     IN /\ heap' = [heap EXCEPT ![lexers[this].caches.type] = r.cache]
        /\ nextId' = r.nextId
        /\ calls' = calls \cup {[op |-> "use", this |-> this, key |-> type,
                                 ret |-> r.ret,
                                 registered |-> isDefined(Get(typesOf(Graph, this), type))]}
  /\ UNCHANGED lexers
  /\ Called("use", this, 0)

\* Lexer.set: this.types after this.set(descriptor)
set(this, descriptor) ==
  Put(typesOf(Graph, this), descriptor.type,
      Entry(descriptor, setTest(nextId, descriptor)))

\* the matchers a grammar author has at hand for a rule: the ones the calls
\* so far returned, and a matcher written by hand
Available == {c.ret : c \in {x \in calls : x.ret.k \in {"text", "regexp", "use", "test"}}}
               \cup {consumeThenFail}

Set(this, type, rule) ==
  /\ ops < MaxOps
  /\ heap' = [heap EXCEPT ![lexers[this].types] =
                set(this, Descriptor(type, rule, "none", NoMatcher))]
  /\ nextId' = nextId + 1
  /\ UNCHANGED <<lexers, calls>>
  /\ Called("set", this, 0)

Next ==
  \/ \E parent \in 0..Len(lexers) : NewLexer(parent)
  \/ \E this \in 1..Len(lexers), pattern \in Patterns : Text(this, pattern)
  \/ \E this \in 1..Len(lexers), re \in RegExps : Regexp(this, re[1], re[2])
  \/ \E this \in 1..Len(lexers), type \in Types : Use(this, type)
  \/ \E this \in 1..Len(lexers), type \in Types, rule \in Available :
       Set(this, type, rule)

Spec == Init /\ [][Next]_vars

\* ---------------------------------------------------------------- C7
\* C7: clone isolation of tables.  A derived Lexer starts with exactly the
\* entries of its parent's types and three caches, and a call on one Lexer
\* leaves the types and caches of every other Lexer as they were.
C7_CloneIsolation ==
  [][/\ (last'.op = "new" /\ last'.parent # 0) =>
          tablesOf(Graph', last'.this) = tablesOf(Graph, last'.parent)
     /\ \A l \in 1..Len(lexers) :
          l # last'.this => tablesOf(Graph', l) = tablesOf(Graph, l)]_vars

\* a child that took over its parent's text matcher, then a rule registered
\* on the child only and another on the parent only
C7_Witness ==
  /\ Len(lexers) >= 2
  /\ hasOwn(textOf(Graph, 1), "a") /\ hasOwn(textOf(Graph, 2), "a")
  /\ textOf(Graph, 2)["a"] = textOf(Graph, 1)["a"]
  /\ hasOwn(typesOf(Graph, 2), "A") /\ ~hasOwn(typesOf(Graph, 1), "A")
  /\ hasOwn(typesOf(Graph, 1), "B") /\ ~hasOwn(typesOf(Graph, 2), "B")

\* ---------------------------------------------------------------- C8
cacheOf(c) == IF c.op = "text" THEN textOf(Graph, c.this) ELSE regexpOf(Graph, c.this)

\* C8: cache identity of leaf matchers.  Within one Lexer, every call of
\* text or regexp returns a matcher, leaves a cache entry under its key, and
\* two calls return the same matcher exactly when their keys are equal.
C8_CacheIdentity ==
  \A c \in calls : c.op \in {"text", "regexp"} =>
    /\ c.ret.k = c.op
    /\ hasOwn(cacheOf(c), c.key)
    /\ \A d \in calls : (d.op = c.op /\ d.this = c.this) =>
         ((d.key = c.key) <=> (d.ret = c.ret))

\* ---------------------------------------------------------------- C9
Probes == {[str |-> str, index |-> 0] : str \in Sources}

\* C9: late-bound rule reference.  A matcher returned by use(kind) runs the
\* rule registered for kind in that Lexer at the moment of evaluation, and
\* the calls made while kind was unregistered returned one closure.
C9_LateBound ==
  \A c \in calls : c.op = "use" =>
    /\ isDefined(Get(typesOf(Graph, c.this), c.key)) =>
         \A w \in Probes :
           Exec(c.ret, w, Graph, {})
             = Exec(testOf(Get(typesOf(Graph, c.this), c.key)), w, Graph, {})
    /\ \A d \in calls :
         (d.op = "use" /\ d.this = c.this /\ d.key = c.key
            /\ ~c.registered /\ ~d.registered) => d.ret = c.ret

\* ---------------------------------------------------------------- C23
\* C23: a derived grammar's references resolve against its own rules.  An
\* indirection returned by use(kind) on a Lexer, also on one derived from a
\* parent that had cached an indirection for kind, runs the rule registered
\* for kind on that very Lexer once there is one.
C23_DerivedResolvesOwnRules ==
  \A c \in calls :
    (c.op = "use" /\ c.ret.k = "use"
       /\ isDefined(Get(typesOf(Graph, c.this), c.key))) =>
      \A w \in Probes :
        Exec(c.ret, w, Graph, {})
          = Exec(testOf(Get(typesOf(Graph, c.this), c.key)), w, Graph, {})

\* ======================================================== generator.js
\* ------------------------------------------------------ runtime values
\* A JavaScript value: t is its type; n holds a number or a boolean (0, 1),
\* s a string, o the properties of an object, ref the object's identity.
JV(t, n, s, o, ref) == [t |-> t, n |-> n, s |-> s, o |-> o, ref |-> ref]
NoProps == [x \in {} |-> 0]
Num(n)  == JV("number", n, "", NoProps, <<>>)
Str(x)  == JV("string", 0, x, NoProps, <<>>)
Bool(b) == JV("boolean", IF b THEN 1 ELSE 0, "", NoProps, <<>>)
JNull   == JV("null", 0, "", NoProps, <<>>)
JUndefined == JV("undefined", 0, "", NoProps, <<>>)
Obj(props, ref) == JV("object", 0, "", props, ref)
\* ToBoolean
truthy(v) ==
  CASE v.t = "number"  -> v.n # 0
    [] v.t = "string"  -> v.s # ""
    [] v.t = "boolean" -> v.n = 1
    [] v.t = "object"  -> TRUE
    [] OTHER -> FALSE
\* left === right (objects by identity)
strictEquals(a, b) ==
  /\ a.t = b.t
  /\ CASE a.t = "object" -> a.ref = b.ref
       [] OTHER -> a.n = b.n /\ a.s = b.s
\* ToPropertyKey of the values the model indexes with
propertyKey(v) ==
  CASE v.t = "string" -> v.s
    [] v.t = "number" -> IF v.n = 0 THEN "0" ELSE "1"
    [] OTHER -> v.t
\* value[key]: the own property of an object, undefined on a primitive
getProperty(v, key) ==
  IF v.t = "object" /\ key \in DOMAIN v.o THEN v.o[key] ELSE JUndefined

\* const BINARY_OPERATION: its keys, and the operations the model evaluates
BinaryOperators ==
  {"+", "-", "*", "/", "%", ">", "<", ">=", "<=", "==", "===", "!=", "!==", "&&", "||"}
BINARY_OPERATION(operator, left, right) ==
  CASE operator = "===" -> Bool(strictEquals(left, right))
    [] operator = "!==" -> Bool(~strictEquals(left, right))
    [] operator = "&&"  -> IF truthy(left) THEN right ELSE left
    [] operator = "||"  -> IF truthy(left) THEN left ELSE right
\* const UNARY_OPERATION: its keys, and the operation the model evaluates
UnaryOperators == {"+", "-", "!", "~"}
UNARY_OPERATION(operator, arg) ==
  CASE operator = "!" -> Bool(~truthy(arg))

\* ------------------------------------------------------------ syntax tree
\* A node: its type, its place in the tree (loc, the slots from the root on:
\* two nodes of one tree are the same object exactly when their loc is equal),
\* and per type its payload: name, value, operator, and the child nodes kids
\* (by slot name).
NoKids == [x \in {} |-> 0]
AstNode(type, loc, name, value, operator, kids, n) ==
  [type |-> type, loc |-> loc, name |-> name, value |-> value,
   operator |-> operator, kids |-> kids, n |-> n]
NoNode == AstNode("none", <<>>, "", JUndefined, "", NoKids, 0)
\* the slot of the i-th element of elements, arguments or properties
slot(i) == CASE i = 1 -> "0" [] i = 2 -> "1" [] i = 3 -> "2" [] OTHER -> "3"
\* node[slot]: a child node, undefined when the node has no such property
child(node, s) == IF s \in DOMAIN node.kids THEN node.kids[s] ELSE NoNode

\* --------------------------------------------------------------- whitelist
\* The host's tables (whitelist.js is not part of the sources).
ValidObjects == {"user"}
ValidCallees == {"first", "user.getName"}
\* the events a closure or a validator leaves: what happened, at which node,
\* with which name and which call-time arguments
Event(ev, at, name, args) == [ev |-> ev, at |-> at, name |-> name, args |-> args]

\* getValidObject(name): the accessor, or the failure it signals
getValidObject(name) ==
  IF name \in ValidObjects THEN [ok |-> TRUE, accessor |-> name, error |-> ""]
  ELSE [ok |-> FALSE, accessor |-> "", error |-> "UnauthorizedIdentifier"]

\* the path a callee expression spells: f, or object.method
calleeSignature(callee) ==
  CASE callee.type = "Identifier" -> callee.name
    [] callee.type = "MemberExpression"
         /\ child(callee, "object").type = "Identifier"
         /\ child(callee, "property").type = "Identifier"
         /\ child(callee, "object").name = "user"
         /\ child(callee, "property").name = "getName" -> "user.getName"
    [] OTHER -> ""

\* getValidCallee(path): the invoker, or the failure it signals
getValidCallee(path) ==
  LET sig == calleeSignature(child(path.node, "callee"))
  IN IF sig \in ValidCallees THEN [ok |-> TRUE, invoker |-> sig, error |-> ""]
     ELSE [ok |-> FALSE, invoker |-> "", error |-> "UnauthorizedCall"]

\* --------------------------------------------------------------- compiling
\* path = [node, parent].  A visitor returns [fn, gate]: the closure (or, when
\* an exception left the visitor, a fault naming it) and what it did besides,
\* in order: the validator calls made on the way and the assignments to the
\* nodes it was handed (path.node is a reference into the tree).
Path(node, parent) == [node |-> node, parent |-> parent]
Compiled(fn, gate) == [fn |-> fn, gate |-> gate]
Fault(error) == [k |-> "fault", error |-> error]
isFault(c) == c.fn.k = "fault"

\* function is (path, type): [ret, err], the boolean returned, or err # ""
\* when it threw.  With a two-part type it reads path.parent.type, a TypeError
\* on a path that has no parent (NoNode stands for undefined).
Is(ret) == [ret |-> ret, err |-> ""]
isType(path, type) == Is(path.node.type = type)
is(path, type) ==
  LET types == CASE type = "MemberExpression.property" -> <<"MemberExpression", "property">>
                 [] type = "Property.key" -> <<"Property", "key">>
                 [] OTHER -> <<type>>
  IN IF Len(types) = 1 THEN Is(path.node.type = types[1])
     ELSE IF path.parent = NoNode THEN [ret |-> FALSE, err |-> "TypeError"]
     ELSE Is(/\ path.parent.type = types[1]
             /\ child(path.parent, types[2]).type # "none"
             /\ child(path.parent, types[2]).loc = path.node.loc)

RECURSIVE traverse(_, _)
RECURSIVE traverseAll(_, _, _, _)

\* path.traverse(node) for each of the first n list slots of parent, in
\* order, collecting the closures; stops at the first exception
traverseAll(parent, i, n, acc) ==
  IF i > n THEN acc
  ELSE LET e == child(parent, slot(i))
           c == IF e.type = "null"
                  THEN Compiled([k |-> "elided", at |-> e.loc], <<>>)
                  ELSE traverse(e, parent)
       IN IF isFault(c) THEN Compiled(c.fn, acc.gate \o c.gate)
          ELSE traverseAll(parent, i + 1, n,
                           Compiled([k |-> "list", fns |-> Append(acc.fn.fns, c.fn)],
                                    acc.gate \o c.gate))

ConditionalExpression(path) ==
  LET node == path.node
      test == traverse(child(node, "test"), node)
      consequent == traverse(child(node, "consequent"), node)
      alternate == traverse(child(node, "alternate"), node)
  IN IF isFault(test) THEN test
     ELSE IF isFault(consequent) THEN Compiled(consequent.fn, test.gate \o consequent.gate)
     ELSE IF isFault(alternate)
       THEN Compiled(alternate.fn, test.gate \o consequent.gate \o alternate.gate)
     ELSE Compiled([k |-> "Conditional", at |-> node.loc, test |-> test.fn,
                    consequent |-> consequent.fn, alternate |-> alternate.fn],
                   test.gate \o consequent.gate \o alternate.gate)

BinaryExpression(path) ==
  LET node == path.node
      left == traverse(child(node, "left"), node)
      right == traverse(child(node, "right"), node)
  IN IF isFault(left) THEN left
     ELSE IF isFault(right) THEN Compiled(right.fn, left.gate \o right.gate)
     ELSE Compiled([k |-> "Binary", at |-> node.loc, operator |-> node.operator,
                    left |-> left.fn, right |-> right.fn],
                   left.gate \o right.gate)

UnaryExpression(path) ==
  LET node == path.node
      argument == traverse(child(node, "argument"), node)
  IN IF isFault(argument) THEN argument
     ELSE Compiled([k |-> "Unary", at |-> node.loc, operator |-> node.operator,
                    argument |-> argument.fn], argument.gate)

ArrayExpression(path) ==
  LET elements == traverseAll(path.node, 1, path.node.n,
                              Compiled([k |-> "list", fns |-> <<>>], <<>>))
  IN IF isFault(elements) THEN elements
     ELSE Compiled([k |-> "Array", at |-> path.node.loc, elements |-> elements.fn.fns],
                   elements.gate)

ObjectExpression(path) ==
  LET properties == traverseAll(path.node, 1, path.node.n,
                                Compiled([k |-> "list", fns |-> <<>>], <<>>))
  IN IF isFault(properties) THEN properties
     ELSE Compiled([k |-> "Object", at |-> path.node.loc,
                    properties |-> properties.fn.fns], properties.gate)

Property(path) ==
  LET key == traverse(child(path.node, "key"), path.node)
      value == traverse(child(path.node, "value"), path.node)
  IN IF isFault(key) THEN key
     ELSE IF isFault(value) THEN Compiled(value.fn, key.gate \o value.gate)
     ELSE Compiled([k |-> "Property", at |-> path.node.loc, key |-> key.fn,
                    value |-> value.fn], key.gate \o value.gate)

Identifier(path) ==
  LET name == path.node.name
      property == is(path, "MemberExpression.property")
      key == is(path, "Property.key")
      asName == Compiled([k |-> "name", at |-> path.node.loc, name |-> name], <<>>)
  IN IF property.err # "" THEN Compiled(Fault(property.err), <<>>)
     ELSE IF property.ret THEN asName
     ELSE IF key.err # "" THEN Compiled(Fault(key.err), <<>>)
     ELSE IF key.ret THEN asName
     ELSE Compiled([k |-> "Identifier", at |-> path.node.loc, name |-> name], <<>>)

\* a Literal visitor that takes the value out of the node it compiles:
\* let value = path.node.value; delete path.node.value
LiteralTaking(path) ==
  Compiled([k |-> "Literal", at |-> path.node.loc, value |-> path.node.value],
           <<Event("assign", path.node.loc, "value", JUndefined)>>)
Literal(path) ==
  Compiled([k |-> "Literal", at |-> path.node.loc, value |-> path.node.value], <<>>)

\* a MemberExpression that swallows the validator's failure: the closure it
\* returns evaluates to undefined
MemberExpressionSilent(path) ==
  LET node == path.node
      property == traverse(child(node, "property"), node)
      valid == getValidObject(child(node, "object").name)
      checked == <<Event("getValidObject", node.loc, child(node, "object").name, <<>>)>>
      object == traverse(child(node, "object"), node)
  IN IF isFault(property) THEN property
     ELSE IF child(node, "object").type = "Identifier"
       THEN IF valid.ok
              THEN Compiled([k |-> "MemberOfRoot", at |-> node.loc,
                             object |-> valid.accessor, property |-> property.fn],
                            property.gate \o checked)
              ELSE Compiled([k |-> "Literal", at |-> node.loc, value |-> JUndefined],
                            property.gate \o checked)
     ELSE IF isFault(object) THEN Compiled(object.fn, property.gate \o object.gate)
     ELSE Compiled([k |-> "Member", at |-> node.loc, object |-> object.fn,
                    property |-> property.fn], property.gate \o object.gate)
MemberExpression(path) ==
  LET node == path.node
      property == traverse(child(node, "property"), node)
      valid == getValidObject(child(node, "object").name)
      checked == <<Event("getValidObject", node.loc, child(node, "object").name, <<>>)>>
      object == traverse(child(node, "object"), node)
  IN IF isFault(property) THEN property
     ELSE IF child(node, "object").type = "Identifier"
       THEN IF valid.ok
              THEN Compiled([k |-> "MemberOfRoot", at |-> node.loc,
                             object |-> valid.accessor, property |-> property.fn],
                            property.gate \o checked)
              ELSE Compiled(Fault(valid.error), property.gate \o checked)
     ELSE IF isFault(object) THEN Compiled(object.fn, property.gate \o object.gate)
     ELSE Compiled([k |-> "Member", at |-> node.loc, object |-> object.fn,
                    property |-> property.fn], property.gate \o object.gate)

CallExpression(path) ==
  LET valid == getValidCallee(path)
      checked == <<Event("getValidCallee", path.node.loc,
                         calleeSignature(child(path.node, "callee")), <<>>)>>
      args == traverseAll(path.node, 1, path.node.n,
                          Compiled([k |-> "list", fns |-> <<>>], <<>>))
  IN IF ~valid.ok THEN Compiled(Fault(valid.error), checked)
     ELSE IF isFault(args) THEN Compiled(args.fn, checked \o args.gate)
     ELSE Compiled([k |-> "Call", at |-> path.node.loc, callee |-> valid.invoker,
                    args |-> args.fn.fns], checked \o args.gate)

\* path.traverse(node): the driver (not part of the sources) hands the node,
\* with the node it was reached from as its parent, to visitor[node.type]
traverse(node, parent) ==
  LET path == Path(node, parent)
  IN CASE node.type = "ConditionalExpression" -> ConditionalExpression(path)
       [] node.type = "BinaryExpression"      -> BinaryExpression(path)
       [] node.type = "UnaryExpression"       -> UnaryExpression(path)
       [] node.type = "ArrayExpression"       -> ArrayExpression(path)
       [] node.type = "ObjectExpression"      -> ObjectExpression(path)
       [] node.type = "Property"              -> Property(path)
       [] node.type = "Identifier"            -> Identifier(path)
       [] node.type = "Literal"               -> Literal(path)
       [] node.type = "MemberExpression"      -> MemberExpression(path)
       [] node.type = "CallExpression"        -> CallExpression(path)
       [] OTHER -> Compiled(Fault("TypeError"), <<>>)

\* -------------------------------------------------------------- evaluating
\* What the host's tables hand out (whitelist.js is not part of the sources):
\* the object an accessor reads from under the call-time arguments, and the
\* function an invoker returns, applied to argument values.
hostObject(name, args) ==
  Obj([x \in {"name", "profile"} |->
         IF x = "name" THEN (IF args = <<>> THEN Str("Ann") ELSE Str("Bob"))
         ELSE Obj([y \in {"city"} |-> Str("X")], <<"host", name, "profile">>)],
      <<"host", name>>)
applyCallee(sig, args, values) ==
  CASE sig = "first" -> IF Len(values) > 0 THEN values[1] ELSE JUndefined
    [] OTHER -> getProperty(hostObject("user", args), "name")

\* a call's outcome: the value returned, or err # "" when it threw, and the
\* events up to then
Ret(v, trace) == [v |-> v, err |-> "", trace |-> trace]
Raise(e, trace) == [v |-> JUndefined, err |-> e, trace |-> trace]

RECURSIVE Invoke(_, _, _, _)
RECURSIVE invokeAll(_, _, _, _, _)

\* fns.map(fn => fn()): the values, in order; stops at the first exception
invokeAll(fns, i, m, values, trace) ==
  IF i > Len(fns) THEN [v |-> JUndefined, err |-> "", trace |-> trace, values |-> values]
  ELSE LET r == Invoke(fns[i], <<>>, m, trace)
       IN IF r.err # "" THEN [v |-> JUndefined, err |-> r.err, trace |-> r.trace,
                              values |-> values]
          ELSE invokeAll(fns, i + 1, m, Append(values, r.v), r.trace)

\* the closure of visitor.ConditionalExpression
callConditionalEager(c, m, trace) ==
  LET test == Invoke(c.test, <<>>, m, trace)
      consequent == Invoke(c.consequent, <<>>, m, test.trace)
      alternate == Invoke(c.alternate, <<>>, m, consequent.trace)
  IN IF test.err # "" THEN test
     ELSE IF consequent.err # "" THEN consequent
     ELSE IF alternate.err # "" THEN alternate
     ELSE Ret(IF truthy(test.v) THEN consequent.v ELSE alternate.v, alternate.trace)
callConditional(c, m, trace) ==
  LET test == Invoke(c.test, <<>>, m, trace)
  IN IF test.err # "" THEN test
     ELSE IF truthy(test.v) THEN Invoke(c.consequent, <<>>, m, test.trace)
     ELSE Invoke(c.alternate, <<>>, m, test.trace)

\* the closure of visitor.BinaryExpression: operation(left(), right())
callBinary(c, m, trace) ==
  LET left == Invoke(c.left, <<>>, m, trace)
      right == Invoke(c.right, <<>>, m, left.trace)
  IN IF left.err # "" THEN left
     ELSE IF right.err # "" THEN right
     ELSE IF c.operator \notin BinaryOperators THEN Raise("TypeError", right.trace)
     ELSE Ret(BINARY_OPERATION(c.operator, left.v, right.v), right.trace)

\* the closure of visitor.UnaryExpression: operation(argument())
callUnary(c, m, trace) ==
  LET argument == Invoke(c.argument, <<>>, m, trace)
  IN IF argument.err # "" THEN argument
     ELSE IF c.operator \notin UnaryOperators THEN Raise("TypeError", argument.trace)
     ELSE Ret(UNARY_OPERATION(c.operator, argument.v), argument.trace)

\* the closure of visitor.ArrayExpression
callArray(c, m, trace) ==
  LET r == invokeAll(c.elements, 1, m, <<>>, trace)
  IN IF r.err # "" THEN Raise(r.err, r.trace)
     ELSE Ret(Obj([x \in {slot(i) : i \in 1..Len(r.values)} |->
                     r.values[CHOOSE i \in 1..Len(r.values) : slot(i) = x]], c.at),
              r.trace)

\* the closure of visitor.Property: [key(), value()]
callProperty(c, m, trace) ==
  LET key == Invoke(c.key, <<>>, m, trace)
      value == Invoke(c.value, <<>>, m, key.trace)
  IN IF key.err # "" THEN key
     ELSE IF value.err # "" THEN value
     ELSE Ret(Obj([x \in {"0", "1"} |-> IF x = "0" THEN key.v ELSE value.v], c.at),
              value.trace)

\* properties.reduce((obj, property) => ..., {}): obj[key] = value in order
RECURSIVE reduceProperties(_, _, _)
reduceProperties(pairs, i, props) ==
  IF i > Len(pairs) THEN props
  ELSE LET key == propertyKey(pairs[i].o["0"])
       IN reduceProperties(pairs, i + 1,
            [x \in (DOMAIN props) \cup {key} |->
               IF x = key THEN pairs[i].o["1"] ELSE props[x]])

\* the closure of visitor.ObjectExpression
callObject(c, m, trace) ==
  LET r == invokeAll(c.properties, 1, m, <<>>, trace)
  IN IF r.err # "" THEN Raise(r.err, r.trace)
     ELSE Ret(Obj(reduceProperties(r.values, 1, NoProps), c.at), r.trace)

\* the closure of visitor.Identifier in value position: window.m[name]
callIdentifier(c, m, trace) ==
  Ret(IF c.name \in DOMAIN m THEN m[c.name] ELSE JUndefined,
      Append(trace, Event("read", c.at, c.name, <<>>)))

\* the closure of visitor.MemberExpression on an Identifier:
\* object(...args)(property())
callMemberOfRoot(c, args, m, trace) ==
  LET called == Append(trace, Event("accessor", c.at, c.object, args))
      property == Invoke(c.property, <<>>, m, called)
  IN IF property.err # "" THEN property
     ELSE Ret(getProperty(hostObject(c.object, args), propertyKey(property.v)),
              property.trace)

\* the closure of visitor.MemberExpression on a compound object:
\* object(...args)[property()]
callMember(c, args, m, trace) ==
  LET object == Invoke(c.object, args, m, trace)
      property == Invoke(c.property, <<>>, m, object.trace)
  IN IF object.err # "" THEN object
     ELSE IF property.err # "" THEN property
     ELSE IF object.v.t \in {"undefined", "null"} THEN Raise("TypeError", property.trace)
     ELSE Ret(getProperty(object.v, propertyKey(property.v)),
              Append(property.trace,
                     Event("index", c.at, propertyKey(property.v), <<>>)))

\* the closure of visitor.CallExpression:
\* callee(...options).apply(undefined, args.map(arg => arg()))
callCallBare(c, options, m, trace) ==
  LET called == Append(trace, Event("invoker", c.at, c.callee, <<>>))
      r == invokeAll(c.args, 1, m, <<>>, called)
  IN IF r.err # "" THEN Raise(r.err, r.trace)
     ELSE Ret(applyCallee(c.callee, <<>>, r.values), r.trace)
callCall(c, options, m, trace) ==
  LET called == Append(trace, Event("invoker", c.at, c.callee, options))
      r == invokeAll(c.args, 1, m, <<>>, called)
  IN IF r.err # "" THEN Raise(r.err, r.trace)
     ELSE Ret(applyCallee(c.callee, options, r.values), r.trace)

\* fn(...args) for a compiled closure fn, with window.m = m
Invoke(c, args, m, trace) ==
  LET t == Append(trace, Event("call", c.at, "", args))
  IN CASE c.k = "Conditional"  -> callConditional(c, m, t)
       [] c.k = "Binary"       -> callBinary(c, m, t)
       [] c.k = "Unary"        -> callUnary(c, m, t)
       [] c.k = "Array"        -> callArray(c, m, t)
       [] c.k = "Object"       -> callObject(c, m, t)
       [] c.k = "Property"     -> callProperty(c, m, t)
       [] c.k = "name"         -> Ret(Str(c.name), t)
       [] c.k = "Identifier"   -> callIdentifier(c, m, t)
       [] c.k = "Literal"      -> Ret(c.value, t)
       [] c.k = "elided"       -> Ret(JNull, t)
       [] c.k = "MemberOfRoot" -> callMemberOfRoot(c, args, m, t)
       [] c.k = "Member"       -> callMember(c, args, m, t)
       [] c.k = "Call"         -> callCall(c, args, m, t)

\* ------------------------------------- specification: one expression
\* The syntax trees: leaves and member chains, and every node type over them.
Lit(loc, n) == AstNode("Literal", loc, "", Num(n), "", NoKids, 0)
Id(loc, name) == AstNode("Identifier", loc, name, JUndefined, "", NoKids, 0)
Kids2(a, x, b, y) == [s \in {a, b} |-> IF s = a THEN x ELSE y]
Member(loc, object, property) ==
  AstNode("MemberExpression", loc, "", JUndefined, "",
          Kids2("object", object, "property", property), 0)
\* the list slots "0".."n-1" filled from the sequence items
ListKids(items) ==
  [s \in {slot(i) : i \in 1..Len(items)} |->
     items[CHOOSE i \in 1..Len(items) : slot(i) = s]]
\* object.property, both identifiers
Dot(loc, object, property) ==
  Member(loc, Id(loc \o <<"object">>, object), Id(loc \o <<"property">>, property))
\* object.p1.p2
Dot2(loc, object, p1, p2) ==
  Member(loc, Dot(loc \o <<"object">>, object, p1), Id(loc \o <<"property">>, p2))

Atoms(loc) ==
  {Lit(loc, 0), Lit(loc, 1), Id(loc, "x"),
   Dot(loc, "user", "name"), Dot(loc, "forbidden", "name"),
   Dot2(loc, "user", "profile", "city"), Dot2(loc, "user", "missing", "z")}

Binary(loc) ==
  {AstNode("BinaryExpression", loc, "", JUndefined, op,
           Kids2("left", l, "right", r), 0) :
     op \in {"&&", "||", "===", "**"},
     l \in Atoms(loc \o <<"left">>), r \in Atoms(loc \o <<"right">>)}
Unary(loc) ==
  {AstNode("UnaryExpression", loc, "", JUndefined, op,
           [s \in {"argument"} |-> a], 0) :
     op \in {"!", "typeof"}, a \in Atoms(loc \o <<"argument">>)}
Conditional(loc) ==
  {AstNode("ConditionalExpression", loc, "", JUndefined, "",
           [s \in {"test", "consequent", "alternate"} |->
              IF s = "test" THEN t ELSE IF s = "consequent" THEN c ELSE a], 0) :
     t \in Atoms(loc \o <<"test">>), c \in Atoms(loc \o <<"consequent">>),
     a \in Atoms(loc \o <<"alternate">>)}
\* the lists of at most MaxArgs items, the i-th drawn from S(loc, slot(i))
Lists(S(_, _), loc) ==
  UNION {{[i \in 1..n |-> f[i]] :
            f \in {g \in [1..n -> UNION {S(loc, slot(i)) : i \in 1..n}] :
                     \A i \in 1..n : g[i] \in S(loc, slot(i))}} : n \in 0..MaxArgs}
Items(loc, s) == {Lit(loc \o <<s>>, 1), Id(loc \o <<s>>, "x"),
                  Dot(loc \o <<s>>, "user", "name"), Dot(loc \o <<s>>, "forbidden", "name")}
Elements(loc, s) == Items(loc, s)
                      \cup {AstNode("null", loc \o <<s>>, "", JNull, "", NoKids, 0)}
Properties(loc, s) ==
  {AstNode("Property", loc \o <<s>>, "", JUndefined, "", Kids2("key", k, "value", v), 0) :
     k \in {Id(loc \o <<s, "key">>, "x"), Id(loc \o <<s, "key">>, "y")},
     v \in {Lit(loc \o <<s, "value">>, 1), Id(loc \o <<s, "value">>, "x"),
            Dot(loc \o <<s, "value">>, "user", "name")}}
Callees(loc) == {Id(loc, "first"), Id(loc, "eval"), Dot(loc, "user", "getName"),
                 Dot(loc, "forbidden", "name")}
Call(loc) ==
  {AstNode("CallExpression", loc, "", JUndefined, "",
           [s \in {"callee"} \cup DOMAIN ListKids(args) |->
              IF s = "callee" THEN c ELSE ListKids(args)[s]], Len(args)) :
     c \in Callees(loc \o <<"callee">>), args \in Lists(Items, loc)}
ArrayLit(loc) ==
  {AstNode("ArrayExpression", loc, "", JUndefined, "", ListKids(es), Len(es)) :
     es \in Lists(Elements, loc)}
ObjectLit(loc) ==
  {AstNode("ObjectExpression", loc, "", JUndefined, "", ListKids(ps), Len(ps)) :
     ps \in Lists(Properties, loc)}
CompoundMember(loc) ==
  {Member(loc, o, Id(loc \o <<"property">>, p)) :
     o \in Binary(loc \o <<"object">>) \cup ObjectLit(loc \o <<"object">>),
     p \in {"x", "name"}}

Trees == Atoms(<<>>) \cup Binary(<<>>) \cup Unary(<<>>) \cup Conditional(<<>>)
           \cup Call(<<>>) \cup ArrayLit(<<>>) \cup ObjectLit(<<>>)
           \cup CompoundMember(<<>>)

\* window.m, and the call-time arguments of an evaluation
Bindings == {NoProps, [n \in {"x"} |-> Num(0)], [n \in {"x"} |-> Num(1)]}
ArgLists == {<<>>, <<Str("scope")>>}

\* path.parent of the root: the driver (not part of the sources) leaves it
\* undefined or sets it to the node that holds the expression
Program == AstNode("Program", <<"Program">>, "", JUndefined, "", NoKids, 0)
RootParents == {NoNode, Program}

InitGen ==
  /\ gpc = "source"
  /\ tree \in Trees
  /\ rootParent \in RootParents
  /\ compiled = <<>>
  /\ evaluated = <<>>
  /\ IdleMatch
  /\ InitLexer
  /\ IdleHost

\* node[field] = value on the node at loc of tree t
RECURSIVE store(_, _, _, _)
store(t, loc, field, value) ==
  IF loc = <<>> THEN [t EXCEPT ![field] = value]
  ELSE [t EXCEPT !.kids = [s \in DOMAIN t.kids |->
                             IF s = Head(loc) THEN store(t.kids[s], Tail(loc), field, value)
                             ELSE t.kids[s]]]
\* the tree as a compilation leaves it: the visitors' assignments, in order
RECURSIVE assigned(_, _)
assigned(t, gate) ==
  IF gate = <<>> THEN t
  ELSE assigned(IF Head(gate).ev = "assign"
                  THEN store(t, Head(gate).at, Head(gate).name, Head(gate).args)
                  ELSE t,
                Tail(gate))

\* fn = compile(tree): the driver hands the root to its visitor
Compile ==
  /\ gpc = "source"
  /\ compiled' = traverse(tree, rootParent)
  /\ tree' = assigned(tree, compiled'.gate)
  /\ gpc' = IF isFault(compiled') THEN "failed" ELSE "compiled"
  /\ UNCHANGED <<evaluated, rootParent, matchVars, lexerVars, hostVars>>

\* fn(...args) with window.m = m; there is no fn when compilation threw
Evaluate(m, args) ==
  /\ gpc \in {"compiled", "recompiled", "evaluated"}
  /\ evaluated' = [m |-> m, args |-> args, out |-> Invoke(compiled.fn, args, m, <<>>)]
  /\ gpc' = "evaluated"
  /\ UNCHANGED <<tree, compiled, rootParent, matchVars, lexerVars, hostVars>>

\* fn = compile(tree) once more: the same tree object, as the earlier
\* compilation left it
Recompile ==
  /\ gpc \in {"compiled", "evaluated"}
  /\ compiled' = traverse(tree, rootParent)
  /\ tree' = assigned(tree, compiled'.gate)
  /\ gpc' = IF isFault(compiled') THEN "failed" ELSE "recompiled"
  /\ UNCHANGED <<evaluated, rootParent, matchVars, lexerVars, hostVars>>

NextGen ==
  \/ Compile
  \/ Recompile
  \/ \E m \in Bindings, args \in ArgLists : Evaluate(m, args)

SpecGen == InitGen /\ [][NextGen]_vars

\* the nodes compilation hands to a visitor: the tree without the callees of
\* its calls and the root identifiers of its member accesses, which the
\* validators read instead
RECURSIVE visited(_)
visited(node) ==
  LET skip == CASE node.type = "CallExpression" -> {"callee"}
                [] node.type = "MemberExpression"
                     /\ child(node, "object").type = "Identifier" -> {"object"}
                [] OTHER -> {}
  IN {node} \cup UNION {visited(node.kids[s]) : s \in (DOMAIN node.kids) \ skip}
\* the member accesses on a bare identifier, and the calls
memberRoots(t) ==
  {n \in visited(t) : n.type = "MemberExpression" /\ child(n, "object").type = "Identifier"}
unauthorizedRoots(t) ==
  {n \in memberRoots(t) : child(n, "object").name \notin ValidObjects}
unauthorizedCalls(t) ==
  {n \in visited(t) : n.type = "CallExpression"
                        /\ calleeSignature(child(n, "callee")) \notin ValidCallees}
events(log) == {log[i] : i \in DOMAIN log}

\* ---------------------------------------------------------------- C4
\* C4: short-circuit of && and ||.  When the left operand of && is falsy, or
\* that of || truthy, the evaluation does not invoke the right operand's
\* closure and does not throw.
C4_ShortCircuit ==
  (gpc = "evaluated" /\ compiled.fn.k = "Binary"
     /\ compiled.fn.operator \in {"&&", "||"}) =>
    LET left == Invoke(compiled.fn.left, <<>>, evaluated.m, <<>>)
    IN (/\ left.err = ""
        /\ (compiled.fn.operator = "&&") = ~truthy(left.v)) =>
         /\ \A e \in events(evaluated.out.trace) :
              ~(e.ev = "call" /\ e.at = compiled.fn.right.at)
         /\ evaluated.out.err = ""

\* ---------------------------------------------------------------- C5
\* C5: unauthorized root identifiers fail at compile time.  A closure is
\* returned only after the object validator was called with the name of every
\* member access on a bare identifier; when one of these names is not in the
\* whitelist, compilation of the whole expression fails (with
\* UnauthorizedIdentifier, unless an unauthorized call failed it) and the
\* expression is never evaluated.
C5_UnauthorizedRootFailsCompile ==
  gpc # "source" =>
    /\ ~isFault(compiled) =>
         \A n \in memberRoots(tree) :
           \E g \in events(compiled.gate) :
             /\ g.ev = "getValidObject" /\ g.at = n.loc
             /\ g.name = child(n, "object").name
    /\ unauthorizedRoots(tree) # {} =>
         /\ isFault(compiled) /\ gpc = "failed" /\ evaluated = <<>>
         /\ unauthorizedCalls(tree) = {} => compiled.fn.error = "UnauthorizedIdentifier"

\* a conditional whose alternate branch alone is rooted at a name outside the
\* whitelist: its compilation failed
C5_Witness ==
  /\ gpc = "failed" /\ tree.type = "ConditionalExpression"
  /\ unauthorizedRoots(tree) = {child(tree, "alternate")}
  /\ memberRoots(tree) # unauthorizedRoots(tree)
  /\ compiled.fn.error = "UnauthorizedIdentifier"
  /\ evaluated = <<>>

\* ---------------------------------------------------------------- C6
\* C6: the allow-list is non-bypassable.  Every name an evaluation reads and
\* every property access it performs was approved by a validator while the
\* expression was compiled.
C6_AllowListNonBypassable ==
  gpc = "evaluated" =>
    \A e \in events(evaluated.out.trace) :
      /\ e.ev = "read" => \E g \in events(compiled.gate) : g.name = e.name
      /\ e.ev = "index" => \E g \in events(compiled.gate) : g.at = e.at

\* the number of invocations of the closure compiled at loc in a trace
invocations(trace, loc) ==
  Cardinality({i \in DOMAIN trace : trace[i].ev = "call" /\ trace[i].at = loc})

\* ---------------------------------------------------------------- C15
\* C15: conditional short-circuit.  An evaluation of the closure of a
\* ConditionalExpression invokes the test closure once and then exactly one of
\* the other two closures: the consequent when the test value is truthy, the
\* alternate otherwise.
C15_ConditionalShortCircuit ==
  (gpc = "evaluated" /\ compiled.fn.k = "Conditional") =>
    LET test == Invoke(compiled.fn.test, <<>>, evaluated.m, <<>>)
        trace == evaluated.out.trace
    IN /\ invocations(trace, compiled.fn.test.at) = 1
       /\ test.err = "" =>
            /\ invocations(trace, compiled.fn.consequent.at)
                 = IF truthy(test.v) THEN 1 ELSE 0
            /\ invocations(trace, compiled.fn.alternate.at)
                 = IF truthy(test.v) THEN 0 ELSE 1

\* a truthy test whose alternate would throw: the evaluation returns the
\* consequent's value
C15_Witness ==
  /\ gpc = "evaluated" /\ compiled.fn.k = "Conditional"
  /\ truthy(Invoke(compiled.fn.test, <<>>, evaluated.m, <<>>).v)
  /\ Invoke(compiled.fn.alternate, <<>>, evaluated.m, <<>>).err # ""
  /\ evaluated.out.err = ""
  /\ evaluated.out.v = Invoke(compiled.fn.consequent, <<>>, evaluated.m, <<>>).v
  /\ invocations(evaluated.out.trace, compiled.fn.alternate.at) = 0

\* ---------------------------------------------------------------- C16
\* the root is a binary or unary expression whose operator has no table entry
unknownOperator(t) ==
  \/ t.type = "BinaryExpression" /\ t.operator \notin BinaryOperators
  \/ t.type = "UnaryExpression" /\ t.operator \notin UnaryOperators

\* C16: unknown operators fail fast.  Compiling a binary or unary expression
\* whose operator is in neither table fails; no closure is returned for it and
\* none of its operand closures is ever invoked.
C16_UnknownOperatorFailsFast ==
  (gpc # "source" /\ unknownOperator(tree)) =>
    /\ isFault(compiled) /\ gpc = "failed"
    /\ evaluated = <<>>

\* ---------------------------------------------------------------- C17
\* C17: call-time argument threading.  When the root closure is invoked with
\* arguments A, every member-access and call closure evaluated in the tree, at
\* any depth, invokes its accessor or invoker with exactly A.
C17_ArgumentThreading ==
  gpc = "evaluated" =>
    \A e \in events(evaluated.out.trace) :
      e.ev \in {"accessor", "invoker"} => e.args = evaluated.args

\* ---------------------------------------------------------------- C18
\* what the binding table m maps name to
bound(m, name) == IF name \in DOMAIN m THEN m[name] ELSE JUndefined

RECURSIVE nodeAt(_, _)
nodeAt(t, loc) ==
  IF loc = <<>> THEN t ELSE nodeAt(child(t, Head(loc)), Tail(loc))
\* the i with slot(i) = s
position(s) == CHOOSE i \in 1..4 : slot(i) = s
\* the closure a compiled closure c holds for the child in slot s
closureIn(c, s) ==
  CASE c.k \in {"Conditional", "Binary", "Unary", "Property", "Member"} -> c[s]
    [] c.k = "MemberOfRoot" -> c.property
    [] c.k = "Array"  -> c.elements[position(s)]
    [] c.k = "Object" -> c.properties[position(s)]
    [] c.k = "Call"   -> c.args[position(s)]
\* the closure compiled for the node at loc
RECURSIVE closureAt(_, _)
closureAt(c, loc) ==
  IF loc = <<>> THEN c ELSE closureAt(closureIn(c, Head(loc)), Tail(loc))
\* the node at loc is the key of a Property or the property of a
\* MemberExpression
namePosition(t, loc) ==
  /\ loc # <<>>
  /\ LET parent == nodeAt(t, SubSeq(loc, 1, Len(loc) - 1))
         s == loc[Len(loc)]
     IN \/ parent.type = "Property" /\ s = "key"
        \/ parent.type = "MemberExpression" /\ s = "property"

\* every node of a tree, the callees and the objects of member accesses
\* included
RECURSIVE nodes(_)
nodes(node) == {node} \cup UNION {nodes(node.kids[s]) : s \in DOMAIN node.kids}

\* C19 as stated: identifier-as-name context.  An Identifier that is the key
\* of a Property or the property of a MemberExpression compiles to a closure
\* that returns its name string whatever the binding table holds; an
\* Identifier in any other parent slot, a MemberExpression's object included,
\* is compiled, to a reference to the value bound to its name.
C19_IdentifierInAnySlot ==
  gpc \in {"compiled", "evaluated"} =>
    \A n \in nodes(tree) : n.type = "Identifier" =>
      \A m \in Bindings :
        IF namePosition(tree, n.loc)
          THEN /\ closureAt(compiled.fn, n.loc).k = "name"
               /\ Invoke(closureAt(compiled.fn, n.loc), <<>>, m, <<>>).v = Str(n.name)
          ELSE /\ n \in visited(tree)
               /\ closureAt(compiled.fn, n.loc).k = "Identifier"
               /\ Invoke(closureAt(compiled.fn, n.loc), <<>>, m, <<>>).v = bound(m, n.name)

\* C19, amended: identifier-as-name context.  An Identifier that is the key
\* of a Property or the property of a MemberExpression compiles to a closure
\* that returns its name string whatever the binding table holds; an
\* Identifier in any other slot the compilation traverses (a Property's
\* value, an operand, an element, an argument) compiles to a reference to the
\* value bound to its name.  The Identifier object of a MemberExpression and
\* a callee are not compiled: the validators read them.
C19_IdentifierAsName ==
  gpc \in {"compiled", "evaluated"} =>
    \A n \in visited(tree) : n.type = "Identifier" =>
      LET c == closureAt(compiled.fn, n.loc)
      IN \A m \in Bindings :
           IF namePosition(tree, n.loc)
             THEN c.k = "name" /\ Invoke(c, <<>>, m, <<>>).v = Str(n.name)
             ELSE c.k = "Identifier" /\ Invoke(c, <<>>, m, <<>>).v = bound(m, n.name)

\* {x: x} evaluated against a table that binds x to 1: the key is the name x,
\* the value is 1
C19_Witness ==
  /\ gpc = "evaluated" /\ tree.type = "ObjectExpression" /\ tree.n = 1
  /\ child(child(tree, "0"), "key") = Id(<<"0", "key">>, "x")
  /\ child(child(tree, "0"), "value") = Id(<<"0", "value">>, "x")
  /\ bound(evaluated.m, "x") = Num(1)
  /\ evaluated.out.v.o = [k \in {"x"} |-> Num(1)]

\* ---------------------------------------------------------------- C20
\* the positions in a trace of the invocations of the closure compiled at loc
callsOf(trace, loc) ==
  {i \in DOMAIN trace : trace[i].ev = "call" /\ trace[i].at = loc}
\* the positions of the invoker calls of the call closure compiled at loc
invokersOf(trace, loc) ==
  {i \in DOMAIN trace : trace[i].ev = "invoker" /\ trace[i].at = loc}

\* C20: call expression protocol.  Compiling a CallExpression calls the
\* callee validator first; a rejected callee aborts the compilation before
\* anything else is compiled, and the callee is never compiled as an
\* expression; each argument is compiled once.  Each evaluation calls the
\* validated invoker once with the call-time arguments, then invokes every
\* argument closure once, left to right, and applies the function obtained to
\* those values in that order.
C20_CallProtocol ==
  (gpc # "source" /\ tree.type = "CallExpression") =>
    LET sig == calleeSignature(child(tree, "callee"))
    IN /\ compiled.gate[1] = Event("getValidCallee", <<>>, sig, <<>>)
       /\ \A g \in events(compiled.gate) : g.at # <<"callee">>
       /\ sig \notin ValidCallees =>
            /\ isFault(compiled) /\ compiled.fn.error = "UnauthorizedCall"
            /\ Len(compiled.gate) = 1
            /\ gpc = "failed" /\ evaluated = <<>>
       /\ ~isFault(compiled) =>
            /\ compiled.fn.k = "Call" /\ compiled.fn.callee = sig
            /\ Len(compiled.fn.args) = tree.n
            /\ \A i \in 1..tree.n :
                 compiled.fn.args[i] = traverse(child(tree, slot(i)), tree).fn
       /\ gpc = "evaluated" =>
            LET trace == evaluated.out.trace
                args == compiled.fn.args
                values == [i \in 1..Len(args) |->
                             Invoke(args[i], <<>>, evaluated.m, <<>>).v]
            IN /\ Cardinality(invokersOf(trace, <<>>)) = 1
               /\ \A i \in invokersOf(trace, <<>>) :
                    /\ trace[i].args = evaluated.args /\ trace[i].name = sig
                    /\ \A j \in 1..Len(args) : \A k \in callsOf(trace, args[j].at) : i < k
               /\ \A j \in 1..Len(args) : Cardinality(callsOf(trace, args[j].at)) = 1
               /\ \A j \in 1..Len(args) : \A k \in 1..Len(args) : j < k =>
                    \A a \in callsOf(trace, args[j].at) :
                      \A b \in callsOf(trace, args[k].at) : a < b
               /\ evaluated.out.err = ""
               /\ evaluated.out.v = applyCallee(sig, evaluated.args, values)

\* user.getName(x, user.name) called with arguments: the invoker got them,
\* and the result is what the host function returns under those arguments
C20_Witness ==
  /\ gpc = "evaluated" /\ tree.type = "CallExpression" /\ tree.n = 2
  /\ calleeSignature(child(tree, "callee")) = "user.getName"
  /\ child(tree, "0").type = "Identifier" /\ child(tree, "1").type = "MemberExpression"
  /\ evaluated.args # <<>>
  /\ evaluated.out.v = Str("Bob")

\* ---------------------------------------------------------------- C21
\* what a call of closure fn returns or throws
outcome(fn, args, m) ==
  LET r == Invoke(fn, args, m, <<>>) IN [v |-> r.v, err |-> r.err]

MaxElems == 3
Elems == 1..MaxElems
NoElement == 0
EmptyTable == [id \in {} |-> NoElement]

\* constructor: the instance with its table resources[this._rid] = {}.
\* frames counts the callbacks handed to fn.raf that have not run yet; owed
\* tells that updateState was called since the latest pass began; seen and
\* shown list the elements the latest pass looked at and called
\* setInViewport for.
newResources ==
  [eid |-> 0, table |-> EmptyTable, rafId |-> 0, frames |-> 0, owed |-> FALSE,
   hasEid |-> [e \in Elems |-> FALSE], eidOf |-> [e \in Elems |-> 0],
   built |-> [e \in Elems |-> FALSE], waiting |-> {},
   seen |-> <<>>, shown |-> <<>>, thrown |-> FALSE,
   last |-> [op |-> "new", arg |-> 0, ret |-> FALSE]]

\* _update: one frame callback per pending marker
update(r) ==
  IF r.rafId = 0
    THEN [r EXCEPT !.rafId = 1, !.frames = @ + 1, !.owed = TRUE]
    ELSE [r EXCEPT !.owed = TRUE]

\* add(element), up to the call of prerender.execute
add(r, e) ==
  [r EXCEPT !.hasEid[e] = TRUE, !.eidOf[e] = r.eid, !.eid = r.eid + 1,
            !.table = [id \in (DOMAIN r.table) \cup {r.eid} |->
                         IF id = r.eid THEN e ELSE r.table[id]],
            !.waiting = @ \cup {e}]

\* the callback add hands to prerender.execute: element.build(); updateState()
execute(r, e) ==
  update([r EXCEPT !.built[e] = TRUE, !.waiting = @ \ {e}])

\* remove(element) for an element (byId = FALSE) or an _eid (byId = TRUE):
\* id = element._eid || element is a number only for an _eid argument or an
\* element whose _eid is truthy; an element itself is not finite
remove(r, byId, x) ==
  LET numeric == byId \/ (r.hasEid[x] /\ r.eidOf[x] # 0)
      id == IF byId THEN x ELSE r.eidOf[x]
  IN IF numeric /\ id \in DOMAIN r.table
       THEN [r |-> [r EXCEPT !.table = [i \in (DOMAIN r.table) \ {id} |-> r.table[i]]],
             ret |-> TRUE]
       ELSE [r |-> r, ret |-> FALSE]

\* the while (ele) loop of _doRealUpdate from index i on.  The element bad, if
\* the loop reaches it built, throws from its viewportCallback; the element
\* spawner, reached built, registers the element born from its callback (a
\* new component instance), prerender running add's callback at once or not.
RECURSIVE pass(_, _, _, _, _, _)
pass(r, i, bad, spawner, born, now) ==
  IF i \notin DOMAIN r.table THEN [r EXCEPT !.rafId = 0]
  ELSE LET ele == r.table[i]
           looked == [r EXCEPT !.seen = Append(@, ele)]
           called == [looked EXCEPT !.shown = Append(@, ele)]
       IN IF ~r.built[ele] THEN pass(looked, i + 1, bad, spawner, born, now)
          ELSE IF ele = bad THEN [called EXCEPT !.thrown = TRUE]
          ELSE IF ele = spawner /\ born # NoElement /\ ~r.hasEid[born]
            THEN pass(IF now THEN execute(add(called, born), born) ELSE add(called, born),
                      i + 1, bad, spawner, born, now)
          ELSE pass(called, i + 1, bad, spawner, born, now)

\* _doRealUpdate, run by the frame callback
doRealUpdate(r, bad, spawner, born, now) ==
  pass([r EXCEPT !.seen = <<>>, !.shown = <<>>, !.thrown = FALSE, !.owed = FALSE],
       0, bad, spawner, born, now)

\* -------------------------------------- specification: one Resources
InitRes ==
  /\ resources = newResources
  /\ extensions = <<>>
  /\ IdleMatch
  /\ InitLexer
  /\ IdleGen

Did(r, op, arg, ret) ==
  /\ resources' = [r EXCEPT !.last = [op |-> op, arg |-> arg, ret |-> ret]]
  /\ UNCHANGED <<extensions, matchVars, lexerVars, genVars>>

\* resources.add(element); prerender.execute runs the callback at once (now)
\* or keeps it for later
Add(e, now) ==
  /\ ~resources.hasEid[e]
  /\ Did(IF now THEN execute(add(resources, e), e) ELSE add(resources, e),
         "add", e, FALSE)

\* prerender runs a callback it kept
Prerender(e) ==
  /\ e \in resources.waiting
  /\ Did(execute(resources, e), "prerender", e, FALSE)

\* resources.remove(element)
RemoveElement(e) ==
  LET out == remove(resources, FALSE, e)
  IN Did(out.r, "remove", e, out.ret)

\* resources.remove(id)
RemoveId(id) ==
  LET out == remove(resources, TRUE, id)
  IN Did(out.r, "removeId", id, out.ret)

\* the viewport's 'changed resize' event or the swipe timer: updateState()
UpdateState ==
  Did(update(resources), "update", 0, FALSE)

\* the browser runs a frame callback: () => this._doRealUpdate()
Frame(bad, spawner, born, now) ==
  /\ resources.frames > 0
  /\ Did(doRealUpdate([resources EXCEPT !.frames = @ - 1], bad, spawner, born, now),
         "frame", bad, FALSE)

NextRes ==
  \/ \E e \in Elems, now \in BOOLEAN : Add(e, now)
  \/ \E e \in Elems : Prerender(e)
  \/ \E e \in Elems : RemoveElement(e)
  \/ \E id \in 0..(MaxElems - 1) : RemoveId(id)
  \/ UpdateState
  \/ \E bad \in Elems \cup {NoElement}, spawner \in Elems \cup {NoElement},
        born \in Elems \cup {NoElement}, now \in BOOLEAN :
       Frame(bad, spawner, born, now)

SpecRes == InitRes /\ [][NextRes]_vars

\* ---------------------------------------------------------------- C24
\* element e is in the table under its _eid
registered(r, e) ==
  r.hasEid[e] /\ r.eidOf[e] \in DOMAIN r.table /\ r.table[r.eidOf[e]] = e

\* C24: remove removes any registered element.  remove(element) of an element
\* that add registered and that is still in the table returns true and leaves
\* no entry under its _eid, also for the first element, whose _eid is 0; it
\* returns false, with the table unchanged, only for an element not in the
\* table.
C24_RemoveRegistered ==
  [][resources'.last.op = "remove" =>
       LET e == resources'.last.arg
       IN IF registered(resources, e)
            THEN /\ resources'.last.ret = TRUE
                 /\ resources.eidOf[e] \notin DOMAIN resources'.table
            ELSE /\ resources'.last.ret = FALSE
                 /\ resources'.table = resources.table]_vars

\* ---------------------------------------------------------------- C25
members(q) == {q[i] : i \in DOMAIN q}

\* C25: an update pass covers the whole registry.  After a run of
\* _doRealUpdate that ended normally, every element in the table (those added
\* during the run included) was looked at, and setInViewport was called for
\* each one that is built.
C25_PassCoversRegistry ==
  (resources.last.op = "frame" /\ ~resources.thrown) =>
    \A id \in DOMAIN resources.table :
      /\ resources.table[id] \in members(resources.seen)
      /\ resources.built[resources.table[id]] =>
           resources.table[id] \in members(resources.shown)

\* ---------------------------------------------------------------- C26
\* C26: update coalescing and re-arming.  At most one frame callback is
\* pending; after an updateState call a callback is pending until the next
\* run of _doRealUpdate begins; and the marker _rafId is set only while a
\* callback is pending, however the latest run ended.
C26_CoalescedAndRearmed ==
  /\ resources.frames <= 1
  /\ resources.owed => resources.frames = 1
  /\ resources.frames = 0 => resources.rafId = 0

\* ====================================================================
\* page/util/dom.js: class Extensions (holders, installExtension)
\* ====================================================================

MaxInstalls == 2
ExtIds == {"a", "b"}
\* this.currentExtensionId = null
NoExt == ""
\* what a factory does: returns, throws an Error object, or throws a falsy
\* value (throw undefined)
Returns == "returns"
Thrown == {"Error", "undefined"}
nonFalsy(v) == v = "Error"

\* the holder getExtensionHolder creates; made is FALSE while
\* this.extensions[extensionId] is still undefined
newHolder ==
  [made |-> FALSE, promise |-> "none", resolve |-> FALSE, reject |-> FALSE,
   loaded |-> FALSE, error |-> "null"]

newExtensions ==
  [holders |-> [id \in ExtIds |-> newHolder], currentExtensionId |-> NoExt,
   body |-> FALSE, installs |-> <<>>, running |-> 0,
   succeeded |-> {}, threw |-> {}]

getExtensionHolder(x, id) == [x EXCEPT !.holders[id].made = TRUE]

waitFor(holder) ==
  IF holder.promise # "none" THEN holder
  ELSE IF holder.loaded THEN [holder EXCEPT !.promise = "resolved"]
  ELSE IF nonFalsy(holder.error) THEN [holder EXCEPT !.promise = "rejected"]
  ELSE [holder EXCEPT !.promise = "pending", !.resolve = TRUE, !.reject = TRUE]

waitForExtension(x, id) ==
  LET made == getExtensionHolder(x, id)
  IN [made EXCEPT !.holders[id] = waitFor(@)]

\* extension.deps as the set of names it holds: an array of names, one name
\* (a string), or nothing
preloadDepsOf(x, deps) ==
  [x EXCEPT !.holders =
     [id \in ExtIds |-> IF id \in deps THEN waitFor([x.holders[id] EXCEPT !.made = TRUE])
                        ELSE x.holders[id]]]

\* Promise.all of the dependencies' promises and whenBodyAvailable()
allResolved(x, deps) ==
  /\ x.body
  /\ \A d \in deps : x.holders[d].promise = "resolved"

\* a Deferred's resolve / reject: settles the promise once
settle(holder, to) ==
  IF holder.promise = "pending" THEN [holder EXCEPT !.promise = to] ELSE holder

\* registerExtension up to the call of the factory
enter(x, id) ==
  [getExtensionHolder(x, id) EXCEPT !.currentExtensionId = id]

\* registerExtension from the factory's return or throw on
registerExtension(x, id, how) ==
  LET holder == x.holders[id]
      done == IF how = Returns
                THEN LET loaded == [holder EXCEPT !.loaded = TRUE]
                     IN IF loaded.resolve THEN settle(loaded, "resolved") ELSE loaded
                ELSE LET failed == [holder EXCEPT !.error = how]
                     IN IF failed.reject THEN settle(failed, "rejected") ELSE failed
  IN [x EXCEPT !.holders[id] = done, !.currentExtensionId = NoExt]

installExtension(x, name, deps, how) ==
  [preloadDepsOf(x, deps) EXCEPT
     !.installs = Append(@, [name |-> name, deps |-> deps, func |-> how,
                             stage |-> "waiting"])]

\* ---------------------------------------------------------------------
\* specification: one Extensions object
\* ---------------------------------------------------------------------

InitExt ==
  /\ extensions = newExtensions
  /\ resources = <<>>
  /\ IdleMatch /\ InitLexer /\ IdleGen

ExtStep(x) ==
  /\ extensions' = x
  /\ UNCHANGED <<resources, matchVars, lexerVars, genVars>>

\* MIP.push(extension): installExtension, from a script or from a factory
Install(name, deps, how) ==
  /\ Len(extensions.installs) < MaxInstalls
  /\ ExtStep(installExtension(extensions, name, deps, how))

\* a caller asks for an extension
WaitForExtension(id) ==
  /\ extensions.holders[id].promise = "none"
  /\ ExtStep(waitForExtension(extensions, id))

\* the promise of mipdoc.whenBodyAvailable() resolves
BodyAvailable ==
  /\ ~extensions.body
  /\ ExtStep([extensions EXCEPT !.body = TRUE])

\* the then callback of installExtension starts: registerExtension calls the
\* factory.  Callbacks run one at a time.
BeginRegister(i) ==
  /\ i <= Len(extensions.installs)
  /\ extensions.running = 0
  /\ extensions.installs[i].stage = "waiting"
  /\ allResolved(extensions, extensions.installs[i].deps)
  /\ ExtStep([enter(extensions, extensions.installs[i].name) EXCEPT
                !.running = i, !.installs[i].stage = "running"])

\* the factory returns or throws and registerExtension finishes
EndRegister ==
  /\ extensions.running # 0
  /\ LET task == extensions.installs[extensions.running]
         x == registerExtension(extensions, task.name, task.func)
     IN ExtStep([x EXCEPT
                   !.running = 0,
                   !.installs[extensions.running].stage = "done",
                   !.succeeded = IF task.func = Returns THEN @ \cup {task.name} ELSE @,
                   !.threw = IF task.func = Returns THEN @ ELSE @ \cup {task.name}])

NextExt ==
  \/ \E name \in ExtIds, deps \in SUBSET ExtIds, how \in {Returns} \cup Thrown :
       Install(name, deps, how)
  \/ \E id \in ExtIds : WaitForExtension(id)
  \/ BodyAvailable
  \/ \E i \in 1..MaxInstalls : BeginRegister(i)
  \/ EndRegister

SpecExt == InitExt /\ [][NextExt]_vars

\* ---------------------------------------------------------------- C27
\* a factory runs only when every extension its deps name has completed a
\* registerExtension without throwing
depsFirst ==
  extensions.running # 0 =>
    extensions.installs[extensions.running].deps \subseteq extensions.succeeded

\* with no factory executing, currentExtensionId is null
currentIdCleared ==
  extensions.running = 0 => extensions.currentExtensionId = NoExt

\* with no factory executing, a promise waitForExtension has handed out is
\* resolved only for a registered extension and rejected only for one whose
\* factory threw; it is resolved once the registration succeeded and rejected
\* once the factory threw, whenever it was asked for
promiseFollowsRegistration ==
  extensions.running = 0 =>
    \A id \in ExtIds :
      LET promise == extensions.holders[id].promise
          ok == id \in extensions.succeeded
          failed == id \in extensions.threw
      IN promise # "none" =>
           /\ promise = "resolved" => ok
           /\ promise = "rejected" => failed
           /\ (ok /\ ~failed) => promise = "resolved"
           /\ (failed /\ ~ok) => promise = "rejected"

\* C27: dependencies load before dependents.  In every interleaving of
\* installExtension calls a factory runs only after each of its deps has
\* completed registerExtension without throwing; the promise of
\* waitForExtension(id) is resolved exactly when that registration succeeded
\* and rejected when its factory threw, whether it was asked for before or
\* after the registration; and currentExtensionId is null whenever no factory
\* is executing.
C27_DependenciesFirst ==
  /\ depsFirst
  /\ currentIdCleared
  /\ promiseFollowsRegistration

====
